---- MODULE Spec2Model ----
(***************************************************************************)
(* A model of react-redux's derived-props pipeline (selectorFactory,       *)
(* mergeProps, wrapMapToProps), of the useSelector hook and of the tree of *)
(* Subscription nodes that notifies it.                                    *)
(*                                                                         *)
(* JavaScript objects are records [id, val, fn]: id is the object's        *)
(* identity (what === compares), val its content (what shallowEqual        *)
(* compares), fn the function's name when the value is a function.         *)
(***************************************************************************)
EXTENDS Integers, Sequences, FiniteSets, TLC

VARIABLES
    opts,     \* connect options: pure, the four equality functions, mergeProps
    msp,      \* the mapStateToProps adapter (proxy of wrapMapToPropsFunc)
    mdp,      \* the mapDispatchToProps adapter
    mp,       \* closure of mergePropsProxy: hasRunOnce, mergedProps
    sel,      \* closure of pureFinalPropsSelectorFactory
    heap,     \* number of objects allocated by user functions so far
    args,     \* the arguments of the last operation
    calls,    \* the calls made by the last operation, in order
    ret,      \* the value the last operation returned
    ncalls,   \* number of operations run so far
    twin,     \* an impure selector built from the same functions and called
              \* with the same inputs: its adapters, its mergeProps closure,
              \* its allocations, the calls of its last invocation, its result
    storeState,  \* what store.getState() returns
    listeners,   \* the listeners subscribed to the context's Subscription, in order
    comp,        \* per consumer of useSelector: its phase, closure and refs
    hop,         \* the last operation on the hook and the consumer it ran for
    hcalls,      \* the calls made by that operation, in order
    checkThrew,  \* the consumers whose selector threw in a store notification
                 \* since their last render
    children,    \* per Subscription node: the nodes subscribed to it, in order
    stack,       \* what the notification in progress has still to do, next first
    visited,     \* the nodes whose listener the current notification has called
    snapshots    \* per node: the children it had when the current notification
                 \* reached it

connectVars == <<opts, msp, mdp, mp, sel, heap, args, calls, ret, ncalls, twin>>

hookVars == <<storeState, listeners, comp, hop, hcalls, checkThrew>>

treeVars == <<children, stack, visited, snapshots>>

vars == <<connectVars, hookVars, treeVars>>

----------------------------------------------------------------------------
(* Bounds *)

\* how many times the final-props selector is invoked in one behaviour
MaxCalls == 3

\* how many times an adapter is invoked directly in one behaviour
MaxInvoke == 3

\* the store's state is { count: n } with n in 0 .. MaxCount
MaxCount == 2

----------------------------------------------------------------------------
(* Values *)

Obj(i, v) == [id |-> i, val |-> v, fn |-> ""]

FnValue(f) == [id |-> 0, val |-> <<>>, fn |-> f]

\* JavaScript's undefined: an unset closure variable, an argument not passed
Undefined == Obj(0, <<>>)

\* States the store can hand to the selector: the first two are distinct
\* objects with the same content, the third differs in content.
StateObjs == { Obj(0 - 1, <<0>>), Obj(0 - 2, <<0>>), Obj(0 - 3, <<1>>) }

\* Own props a parent can pass, built the same way.
OwnPropsObjs == { Obj(0 - 4, <<0>>), Obj(0 - 5, <<0>>), Obj(0 - 6, <<1>>) }

\* store.dispatch, the first argument of mapDispatchToProps
dispatch == Obj(0 - 7, <<2>>)

\* a === b
strictEqual(a, b) == a.id = b.id /\ a.fn = b.fn

\* shallowEqual(a, b): identical, or plain objects with the same content
shallowEqual(a, b) == strictEqual(a, b) \/ (a.fn = "" /\ b.fn = "" /\ a.val = b.val)

Equal(eq, a, b) == IF eq = "strictEqual" THEN strictEqual(a, b) ELSE shallowEqual(a, b)

----------------------------------------------------------------------------
(* User-supplied mapping functions.                                        *)
(*   len    the function's declared arity (Function.length)                *)
(*   flag   its dependsOnOwnProps property, as a JavaScript value          *)
(*   reads  whether its result uses the second argument when it gets one   *)
(*   ret    "props" when it builds a new props object, "arg" when it       *)
(*          returns (a part of) its first argument as it is, else the name *)
(*          of the function it returns (a factory)                         *)
(***************************************************************************)

UserFn(len, flag, reads, r) == [len |-> len, flag |-> flag, reads |-> reads, ret |-> r]

Fn ==
    [f \in {"s1", "s2", "s0", "d1", "m1", "t1", "f2", "n2", "z2", "o1",
             "fa", "fb", "fc", "ff"} |->
        CASE f = "s1" -> UserFn(1, "undefined", FALSE, "props")  \* state => ...
          [] f = "s2" -> UserFn(2, "undefined", TRUE, "props")   \* (state, ownProps) => ...
          [] f = "s0" -> UserFn(0, "undefined", TRUE, "props")   \* (...args) => ...
          [] f = "d1" -> UserFn(1, "undefined", TRUE, "props")   \* (state, ownProps = {}) => ...
          [] f = "m1" -> UserFn(1, "undefined", FALSE, "arg")     \* state => state.part
          [] f = "t1" -> UserFn(1, "true", TRUE, "props")
          [] f = "f2" -> UserFn(2, "false", FALSE, "props")
          [] f = "n2" -> UserFn(2, "null", TRUE, "props")
          [] f = "z2" -> UserFn(2, "0", FALSE, "props")
          [] f = "o1" -> UserFn(1, "1", TRUE, "props")
          [] f = "fa" -> UserFn(1, "undefined", FALSE, "s2")     \* () => (state, ownProps) => ...
          [] f = "fb" -> UserFn(2, "undefined", FALSE, "s1")
          [] f = "fc" -> UserFn(0, "undefined", FALSE, "f2")
          [] f = "ff" -> UserFn(1, "undefined", FALSE, "fa")]    \* a factory of a factory

FnNames == DOMAIN Fn

\* Boolean(v) for the values a flag takes here
ToBoolean(v) == v \in {"true", "1"}

getDependsOnOwnProps(f) ==
    IF Fn[f].flag # "null" /\ Fn[f].flag # "undefined"
    THEN ToBoolean(Fn[f].flag)
    ELSE Fn[f].len # 1

----------------------------------------------------------------------------
(* The world an operation runs in: the closures it can change, the         *)
(* allocation counter, the call log and the value of the last expression.  *)

World == [pure |-> opts.pure, msp |-> msp, mdp |-> mdp, mp |-> mp, sel |-> sel,
          heap |-> heap, calls |-> <<>>, out |-> Undefined]

\* An entry of the call log: op is "adapter" (an adapter was invoked),
\* "mergeProps" (the selector's mergeProps was invoked) or "fn" (a user
\* function was called, out being what it returned).
Call(op, role, f, argIds, out) ==
    [op |-> op, role |-> role, fn |-> f, args |-> argIds, out |-> out]

Adapter(w, role) == IF role = "mapStateToProps" THEN w.msp ELSE w.mdp

SetAdapter(w, role, px) ==
    IF role = "mapStateToProps" THEN [w EXCEPT !.msp = px] ELSE [w EXCEPT !.mdp = px]

\* A call of the user function f with (a, b); b is Undefined when not passed.
CallUserFn(w, role, f, a, b) ==
    LET result ==
            CASE Fn[f].ret = "props" ->
                    Obj(w.heap + 1,
                        <<a.val, IF Fn[f].reads /\ b # Undefined THEN b.val ELSE <<>> >>)
              [] Fn[f].ret = "arg" -> a
              [] OTHER -> FnValue(Fn[f].ret)
    IN [w EXCEPT !.heap = IF Fn[f].ret = "props" THEN @ + 1 ELSE @,
                 !.calls = Append(@, Call("fn", role, f, <<a.id, b.id>>, result)),
                 !.out = result]

\* The adapter a fresh initProxySelector returns.
initProxySelector(f) ==
    [kind |-> "proxy", fn |-> f, mapToProps |-> "detectFactoryAndVerify",
     dependsOnOwnProps |-> TRUE, constant |-> Undefined]

\* The adapter a fresh initConstantSelector returns.
initConstantSelector(c) ==
    [kind |-> "constant", fn |-> "", mapToProps |-> "constantSelector",
     dependsOnOwnProps |-> FALSE, constant |-> c]

\* mapToPropsProxy once proxy.mapToProps is a user function
ProxyCallsMapToProps(w, role, stateOrDispatch, ownProps) ==
    LET proxy == Adapter(w, role)
    IN IF proxy.dependsOnOwnProps
       THEN CallUserFn(w, role, proxy.mapToProps, stateOrDispatch, ownProps)
       ELSE CallUserFn(w, role, proxy.mapToProps, stateOrDispatch, Undefined)

\* proxy.mapToProps = mapToProps; proxy.dependsOnOwnProps = getDependsOnOwnProps(mapToProps)
UseWrappedFn(w, role) ==
    SetAdapter(w, role,
        [Adapter(w, role) EXCEPT
            !.mapToProps = Adapter(w, role).fn,
            !.dependsOnOwnProps = getDependsOnOwnProps(Adapter(w, role).fn)])

\* Mutant of UseReturnedFn: the flag of the factory is kept for the function
\* it returned.
UseReturnedFn_KeepsFlag(w, role) ==
    SetAdapter(w, role, [Adapter(w, role) EXCEPT !.mapToProps = w.out.fn])

\* proxy.mapToProps = props; proxy.dependsOnOwnProps = getDependsOnOwnProps(props)
UseReturnedFn(w, role) ==
    SetAdapter(w, role,
        [Adapter(w, role) EXCEPT
            !.mapToProps = w.out.fn,
            !.dependsOnOwnProps = getDependsOnOwnProps(w.out.fn)])

\* Mutant of ResolveFactory: the factory stays the adapter's mapToProps.
ResolveFactory_KeepsFactory(w, role, stateOrDispatch, ownProps) ==
    IF w.out.fn # ""
    THEN ProxyCallsMapToProps(w, role, stateOrDispatch, ownProps)
    ELSE w

\* if (typeof props === 'function') { ...; props = proxy(stateOrDispatch, ownProps) }
\* w.out is props, the result of the first call
ResolveFactory(w, role, stateOrDispatch, ownProps) ==
    IF w.out.fn # ""
    THEN ProxyCallsMapToProps(UseReturnedFn(w, role), role, stateOrDispatch, ownProps)
    ELSE w

detectFactoryAndVerify(w, role, stateOrDispatch, ownProps) ==
    ResolveFactory(
        ProxyCallsMapToProps(UseWrappedFn(w, role), role, stateOrDispatch, ownProps),
        role, stateOrDispatch, ownProps)

\* An invocation of the adapter for role: mapToPropsProxy or constantSelector.
mapToPropsProxy(w, role, stateOrDispatch, ownProps) ==
    LET proxy == Adapter(w, role)
        logged == [w EXCEPT !.calls = Append(@,
                      Call("adapter", role, "", <<stateOrDispatch.id, ownProps.id>>, Undefined))]
    IN CASE proxy.kind = "constant" -> [logged EXCEPT !.out = proxy.constant]
         [] proxy.mapToProps = "detectFactoryAndVerify" ->
                \* proxy.dependsOnOwnProps is true here: ownProps is passed on
                detectFactoryAndVerify(logged, role, stateOrDispatch,
                    IF proxy.dependsOnOwnProps THEN ownProps ELSE Undefined)
         [] OTHER -> ProxyCallsMapToProps(logged, role, stateOrDispatch, ownProps)

----------------------------------------------------------------------------
(* mergeProps *)

defaultMergeProps(w, stateProps, dispatchProps, ownProps) ==
    [w EXCEPT !.heap = @ + 1,
              !.out = Obj(w.heap + 1, <<ownProps.val, stateProps.val, dispatchProps.val>>)]

\* The user's mergeProps: "pick" is (stateProps, dispatchProps) => ({ ...stateProps,
\* ...dispatchProps }), which leaves ownProps out; "passState" is stateProps => stateProps.
userMergeProps(w, stateProps, dispatchProps, ownProps) ==
    LET result == IF opts.mergeProps = "passState"
                  THEN stateProps
                  ELSE Obj(w.heap + 1, <<stateProps.val, dispatchProps.val>>)
    IN [w EXCEPT !.heap = IF opts.mergeProps = "passState" THEN @ ELSE @ + 1,
                 !.calls = Append(@, Call("fn", "mergeProps", opts.mergeProps,
                              <<stateProps.id, dispatchProps.id, ownProps.id>>, result)),
                 !.out = result]

\* Mutant of MemoizeMergedProps: the last result is never reused.
MemoizeMergedProps_NoMemo(w) ==
    [w EXCEPT !.mp = [hasRunOnce |-> TRUE, mergedProps |-> w.out]]

\* mergePropsProxy after nextMergedProps = mergeProps(...): w.out is
\* nextMergedProps
MemoizeMergedProps(w) ==
    LET nextMergedProps == w.out
        mergedProps ==
            IF w.mp.hasRunOnce
            THEN IF ~w.pure
                    \/ ~Equal(opts.areMergedPropsEqual, nextMergedProps, w.mp.mergedProps)
                 THEN nextMergedProps
                 ELSE w.mp.mergedProps
            ELSE nextMergedProps
    IN [w EXCEPT !.mp = [hasRunOnce |-> TRUE, mergedProps |-> mergedProps],
                 !.out = mergedProps]

mergePropsProxy(w, stateProps, dispatchProps, ownProps) ==
    MemoizeMergedProps(userMergeProps(w, stateProps, dispatchProps, ownProps))

\* The mergeProps the selector factory is given: defaultMergeProps when the
\* user passed none, else the proxy around the user's function.
mergeProps(w, stateProps, dispatchProps, ownProps) ==
    LET logged == [w EXCEPT !.calls = Append(@,
                      Call("mergeProps", "mergeProps", "",
                           <<stateProps.id, dispatchProps.id, ownProps.id>>, Undefined))]
    IN IF opts.mergeProps = "omitted"
       THEN defaultMergeProps(logged, stateProps, dispatchProps, ownProps)
       ELSE mergePropsProxy(logged, stateProps, dispatchProps, ownProps)

----------------------------------------------------------------------------
(* selectorFactory *)

mapStateToProps(w, state, ownProps) == mapToPropsProxy(w, "mapStateToProps", state, ownProps)

mapDispatchToProps(w, d, ownProps) == mapToPropsProxy(w, "mapDispatchToProps", d, ownProps)

\* mergeProps(<w.out>, mapDispatchToProps(dispatch, ownProps), ownProps), the
\* state props being w.out
ImpureMerge(w, stateProps, ownProps) == mergeProps(w, stateProps, w.out, ownProps)

ImpureMapDispatch(w, ownProps) ==
    ImpureMerge(mapDispatchToProps(w, dispatch, ownProps), w.out, ownProps)

impureFinalPropsSelector(w, state, ownProps) ==
    ImpureMapDispatch(mapStateToProps(w, state, ownProps), ownProps)

\* The statements the handlers of the pure selector are made of. Each takes
\* the world before it and gives the world after it; w.out is the value of
\* the call just made.

\* state = nextState; ownProps = nextOwnProps
SetInputs(w, nextState, nextOwnProps) ==
    [w EXCEPT !.sel.state = nextState, !.sel.ownProps = nextOwnProps]

\* the assignments of the value just computed to a variable of the closure
StoreStateProps(w) == [w EXCEPT !.sel.stateProps = w.out]

StoreDispatchProps(w) == [w EXCEPT !.sel.dispatchProps = w.out]

StoreMergedProps(w) == [w EXCEPT !.sel.mergedProps = w.out]

\* stateProps = mapStateToProps(state, ownProps)
AssignStateProps(w) ==
    StoreStateProps(mapStateToProps(w, w.sel.state, w.sel.ownProps))

\* dispatchProps = mapDispatchToProps(dispatch, ownProps)
AssignDispatchProps(w) ==
    StoreDispatchProps(mapDispatchToProps(w, dispatch, w.sel.ownProps))

\* mergedProps = mergeProps(stateProps, dispatchProps, ownProps); return mergedProps
MergeAndReturn(w) ==
    StoreMergedProps(mergeProps(w, w.sel.stateProps, w.sel.dispatchProps, w.sel.ownProps))

\* return mergedProps
ReturnCached(w) == [w EXCEPT !.out = w.sel.mergedProps]

\* hasRunAtLeastOnce = true
MarkRun(w) == [w EXCEPT !.sel.hasRunAtLeastOnce = TRUE]

handleFirstCall(w, firstState, firstOwnProps) ==
    MarkRun(MergeAndReturn(AssignDispatchProps(AssignStateProps(
        SetInputs(w, firstState, firstOwnProps)))))

\* if (mapStateToProps.dependsOnOwnProps) stateProps = mapStateToProps(state, ownProps)
StatePropsIfDepends(w) ==
    IF w.msp.dependsOnOwnProps THEN AssignStateProps(w) ELSE w

\* Mutant of DispatchPropsIfDepends: the cached dispatchProps is kept whatever
\* the flag says.
DispatchPropsIfDepends_Never(w) == w

\* if (mapDispatchToProps.dependsOnOwnProps) dispatchProps = mapDispatchToProps(...)
DispatchPropsIfDepends(w) ==
    IF w.mdp.dependsOnOwnProps THEN AssignDispatchProps(w) ELSE w

\* Mutant of handleNewPropsAndNewState: mapStateToProps runs only if it depends
\* on own props.
handleNewPropsAndNewState_StateIfDepends(w) ==
    MergeAndReturn(DispatchPropsIfDepends(StatePropsIfDepends(w)))

handleNewPropsAndNewState(w) ==
    MergeAndReturn(DispatchPropsIfDepends(AssignStateProps(w)))

\* Mutant of handleNewProps: mapStateToProps runs whatever its flag says.
handleNewProps_AlwaysMapsState(w) ==
    MergeAndReturn(DispatchPropsIfDepends(AssignStateProps(w)))

\* Mutant of handleNewProps: the props are mapped again but the cached
\* mergedProps is returned without merging.
handleNewProps_NoMerge(w) ==
    ReturnCached(DispatchPropsIfDepends(StatePropsIfDepends(w)))

handleNewProps(w) ==
    MergeAndReturn(DispatchPropsIfDepends(StatePropsIfDepends(w)))

\* Mutant of MergeIfStatePropsChanged: it merges without comparing.
MergeIfStatePropsChanged_Always(w) == MergeAndReturn(StoreStateProps(w))

\* handleNewState after nextStateProps = mapStateToProps(state, ownProps):
\* w.out is nextStateProps, the closure still holds the previous stateProps
MergeIfStatePropsChanged(w) ==
    IF ~Equal(opts.areStatePropsEqual, w.out, w.sel.stateProps)
    THEN MergeAndReturn(StoreStateProps(w))
    ELSE ReturnCached(StoreStateProps(w))

handleNewState(w) ==
    MergeIfStatePropsChanged(mapStateToProps(w, w.sel.state, w.sel.ownProps))

\* Mutant of DispatchOnChanges: with nothing changed it still asks handleNewState.
DispatchOnChanges_NoEarlyReturn(w, propsChanged, stateChanged) ==
    CASE propsChanged /\ stateChanged -> handleNewPropsAndNewState(w)
      [] propsChanged -> handleNewProps(w)
      [] OTHER -> handleNewState(w)

\* the four returns of handleSubsequentCalls
DispatchOnChanges(w, propsChanged, stateChanged) ==
    CASE propsChanged /\ stateChanged -> handleNewPropsAndNewState(w)
      [] propsChanged -> handleNewProps(w)
      [] stateChanged -> handleNewState(w)
      [] OTHER -> ReturnCached(w)

handleSubsequentCalls(w, nextState, nextOwnProps) ==
    DispatchOnChanges(
        SetInputs(w, nextState, nextOwnProps),
        ~Equal(opts.areOwnPropsEqual, nextOwnProps, w.sel.ownProps),
        ~Equal(opts.areStatesEqual, nextState, w.sel.state))

pureFinalPropsSelector(w, nextState, nextOwnProps) ==
    IF w.sel.hasRunAtLeastOnce
    THEN handleSubsequentCalls(w, nextState, nextOwnProps)
    ELSE handleFirstCall(w, nextState, nextOwnProps)

\* the selector finalPropsSelectorFactory returned for options.pure
finalPropsSelector(w, nextState, nextOwnProps) ==
    IF opts.pure
    THEN pureFinalPropsSelector(w, nextState, nextOwnProps)
    ELSE impureFinalPropsSelector(w, nextState, nextOwnProps)

----------------------------------------------------------------------------
(* The options and functions connect() is given *)

EqualityFns == {"strictEqual", "shallowEqual"}

\* connect's defaults, every comparison by identity, every comparison shallow
EqualityOptions ==
    { [areStatesEqual |-> "strictEqual", areOwnPropsEqual |-> "shallowEqual",
       areStatePropsEqual |-> "shallowEqual", areMergedPropsEqual |-> "shallowEqual"],
      [areStatesEqual |-> "strictEqual", areOwnPropsEqual |-> "strictEqual",
       areStatePropsEqual |-> "strictEqual", areMergedPropsEqual |-> "strictEqual"],
      [areStatesEqual |-> "shallowEqual", areOwnPropsEqual |-> "shallowEqual",
       areStatePropsEqual |-> "shallowEqual", areMergedPropsEqual |-> "shallowEqual"] }

Options ==
    { [pure |-> p, mergeProps |-> m,
       areStatesEqual |-> e.areStatesEqual, areOwnPropsEqual |-> e.areOwnPropsEqual,
       areStatePropsEqual |-> e.areStatePropsEqual,
       areMergedPropsEqual |-> e.areMergedPropsEqual] :
         p \in BOOLEAN, m \in {"omitted", "pick", "passState"}, e \in EqualityOptions }

\* the mapping functions connect() is given in the pipeline's behaviours
MapStateFns == {"s1", "s2", "d1", "m1", "fa"}

MapDispatchFns == {"s1", "s2"}

\* what mapDispatchToProps defaults to: the constant { dispatch }
DispatchConstant == Obj(0 - 8, <<2>>)

NewSelectorClosure ==
    [hasRunAtLeastOnce |-> FALSE, state |-> Undefined, ownProps |-> Undefined,
     stateProps |-> Undefined, dispatchProps |-> Undefined, mergedProps |-> Undefined]

NewMergeClosure == [hasRunOnce |-> FALSE, mergedProps |-> Undefined]

\* no impure selector is built beside the selector under test
NoTwin ==
    [msp |-> initProxySelector("s1"), mdp |-> initConstantSelector(DispatchConstant),
     mp |-> NewMergeClosure, heap |-> 0, calls |-> <<>>, ret |-> Undefined]

\* the pipeline before anything is constructed around a user function
ConnectIdle ==
    /\ opts = CHOOSE o \in Options : TRUE
    /\ msp = initProxySelector("s1")
    /\ mdp = initConstantSelector(DispatchConstant)
    /\ mp = NewMergeClosure
    /\ sel = NewSelectorClosure
    /\ heap = 0
    /\ args = <<Undefined, Undefined>>
    /\ calls = <<>>
    /\ ret = Undefined
    /\ ncalls = 0
    /\ twin = NoTwin

----------------------------------------------------------------------------
(* useSelector.                                                            *)
(*                                                                         *)
(* The store's state is its count. A selector's result is [ok, val]: ok is *)
(* FALSE when the selector threw.                                          *)
(***************************************************************************)

Consumers == {"c1", "c2"}

States == 0 .. MaxCount

\* the selectors a consumer can be rendered with: s => s.count,
\* s => s.count % 2, and s => s.items[s.count].id, which throws when the count
\* is 1
Selectors == {"count", "parity", "fragile"}

Threw == [ok |-> FALSE, val |-> 0 - 1]

Returned(v) == [ok |-> TRUE, val |-> v]

ApplySelector(f, s) ==
    CASE f = "count" -> Returned(s)
      [] f = "parity" -> Returned(s % 2)
      [] f = "fragile" -> IF s = 1 THEN Threw ELSE Returned(s)
      [] OTHER -> Threw     \* undefined(...) is a TypeError

\* useRef(): a ref's current is undefined until an effect sets it
NoValue == 0 - 1

EqualityFnNames == {"refEquality", "sameParity"}

\* what each consumer of the behaviours is written with: c1 changes its
\* selector between renders and may pass its own equalityFn, its sibling c2
\* is useSelector(s => s.count)
SelectorsOf(c) == IF c = "c1" THEN Selectors ELSE {"count"}

EqualityFnsOf(c) == IF c = "c1" THEN EqualityFnNames ELSE {"refEquality"}

refEquality(a, b) == a = b

\* equalityFn(a, b): the default, or a caller's coarser comparison
ApplyEqualityFn(eq, a, b) ==
    IF eq = "refEquality" THEN refEquality(a, b) ELSE (a % 2) = (b % 2)

\* a consumer that is not mounted: no closure, no refs
Unmounted(eq) ==
    [phase |-> "unmounted",
     equalityFn |-> eq,
     selector |-> "undefined",
     selectedState |-> NoValue,
     latestSelector |-> "undefined",
     latestSelectedState |-> NoValue,
     latestSubscriptionCallbackError |-> "undefined",
     effectSelector |-> "undefined",   \* the selector the effect's closure captured
     forceRender |-> FALSE,     \* a re-render was requested and has not run yet
     thrown |-> "nothing"]      \* what the last render threw

HookCall(op, c, f, arg, out) == [op |-> op, c |-> c, fn |-> f, arg |-> arg, out |-> out]

\* the hook's world: the consumers and the call log of the running operation
HookWorld == [comp |-> comp, calls |-> <<>>]

\* Mutant of SelectorMustRun: every render calls the selector.
SelectorMustRun_Always(me, f) == TRUE

\* selector !== latestSelector.current || latestSubscriptionCallbackError.current
SelectorMustRun(me, f) ==
    f # me.latestSelector \/ me.latestSubscriptionCallbackError # "undefined"

\* Mutant of ErrorMessage: the previous error is never mentioned.
ErrorMessage_NeverCorrelates(me) == "plain"

\* the message of the error a failed render throws: "correlated" when it
\* names the stack of the error the subscription callback stored
ErrorMessage(me) ==
    IF me.latestSubscriptionCallbackError # "undefined" THEN "correlated" ELSE "plain"

\* the body of useSelector up to its effects (lines 69-89), for consumer c
\* rendered with selector f
RenderBody(h, c, f) ==
    LET me == h.comp[c]
        reads == SelectorMustRun(me, f)
        r == ApplySelector(f, storeState)
        logged == IF reads
                  THEN Append(h.calls, HookCall("selector", c, f, storeState, r))
                  ELSE h.calls
    IN IF reads /\ ~r.ok
       THEN [comp |-> [h.comp EXCEPT ![c] =
                        [me EXCEPT !.phase = "failed",
                                   !.selector = f,
                                   !.forceRender = FALSE,
                                   !.thrown = ErrorMessage(me)]],
             calls |-> logged]
       ELSE [comp |-> [h.comp EXCEPT ![c] =
                        [me EXCEPT !.phase = "rendered",
                                   !.selector = f,
                                   !.selectedState =
                                       IF reads THEN r.val ELSE me.latestSelectedState,
                                   !.forceRender = FALSE,
                                   !.thrown = "nothing"]],
             calls |-> logged]

\* the first layout effect (lines 91-95)
RecordEffectBody(h, c) ==
    [h EXCEPT !.comp[c].latestSelector = h.comp[c].selector,
              !.comp[c].latestSelectedState = h.comp[c].selectedState,
              !.comp[c].latestSubscriptionCallbackError = "undefined"]

\* Mutant of LatestSelector: the callback uses the selector its closure
\* captured when the effect ran.
LatestSelector_OfClosure(me) == me.effectSelector

\* latestSelector.current, as checkForUpdates reads it
LatestSelector(me) == me.latestSelector

\* Mutant of checkForUpdates: it requests a re-render whatever equalityFn says.
checkForUpdates_AlwaysForces(h, c) ==
    LET me == h.comp[c]
        r == ApplySelector(me.latestSelector, storeState')
        ran == Append(h.calls, HookCall("selector", c, me.latestSelector, storeState', r))
    IN [comp |-> [h.comp EXCEPT ![c] =
                    IF r.ok THEN [me EXCEPT !.latestSelectedState = r.val, !.forceRender = TRUE]
                    ELSE [me EXCEPT !.latestSubscriptionCallbackError = "error",
                                    !.forceRender = TRUE]],
        calls |-> Append(ran, HookCall("forceRender", c, "", storeState', Threw))]

\* checkForUpdates (lines 98-117) of consumer c, reading the store's new state
checkForUpdates(h, c) ==
    LET me == h.comp[c]
        r == ApplySelector(LatestSelector(me), storeState')
        ran == Append(h.calls, HookCall("selector", c, LatestSelector(me), storeState', r))
        forced == Append(ran, HookCall("forceRender", c, "", storeState', Threw))
    IN CASE ~r.ok ->
                [comp |-> [h.comp EXCEPT ![c] =
                              [me EXCEPT !.latestSubscriptionCallbackError = "error",
                                         !.forceRender = TRUE]],
                 calls |-> forced]
         [] ApplyEqualityFn(me.equalityFn, r.val, me.latestSelectedState) ->
                [h EXCEPT !.calls = ran]
         [] OTHER ->
                [comp |-> [h.comp EXCEPT ![c] =
                              [me EXCEPT !.latestSelectedState = r.val,
                                         !.forceRender = TRUE]],
                 calls |-> forced]

\* Mutant of SubscribeEffectBody: it does not call checkForUpdates on mount.
SubscribeEffectBody_NoCheck(h, c) ==
    [h EXCEPT !.comp[c].phase = "mounted",
              !.comp[c].effectSelector = h.comp[c].selector]

\* the second layout effect (lines 97-125) after subscription.trySubscribe()
SubscribeEffectBody(h, c) ==
    [checkForUpdates([h EXCEPT !.comp[c].effectSelector = h.comp[c].selector], c)
        EXCEPT !.comp[c].phase = "mounted"]

\* Subscription.trySubscribe: register with the parent once
trySubscribe(ls, c) ==
    IF \E i \in DOMAIN ls : ls[i] = c THEN ls ELSE Append(ls, c)

\* Subscription.tryUnsubscribe: leave the parent's listeners
tryUnsubscribe(ls, c) == SelectSeq(ls, LAMBDA x : x # c)

\* Subscription.notifyNestedSubs: every listener registered when the pass
\* starts is called, in order of subscription
RECURSIVE notifyNestedSubs(_, _)
notifyNestedSubs(h, ls) ==
    IF ls = <<>> THEN h
    ELSE notifyNestedSubs(checkForUpdates(h, Head(ls)), Tail(ls))

----------------------------------------------------------------------------
(* A tree of Subscription nodes: the Provider's node, the nodes of two     *)
(* components under it, and the nodes of two components nested in the      *)
(* first.                                                                  *)
(***************************************************************************)

Nodes == {"root", "a", "b", "a1", "a2"}

\* new Subscription(store, contextSub): the node a node subscribes to
ParentOf(n) ==
    CASE n \in {"a", "b"} -> "root"
      [] n \in {"a1", "a2"} -> "a"
      [] OTHER -> "store"

NotTaken == [taken |-> FALSE, nodes |-> <<>>]

Taken(seq) == [taken |-> TRUE, nodes |-> seq]

\* what a notification has to do: call a node's listener, or notify the
\* children of a node from the next-th on
ListenerItem(n) == [kind |-> "listener", node |-> n, snap |-> <<>>, next |-> 0]

ChildrenItem(n, snap, next) == [kind |-> "children", node |-> n, snap |-> snap, next |-> next]

\* Mutant of NotifyPlan: the children are notified before the node's own
\* listener is called.
NotifyPlan_ChildrenFirst(n) ==
    << ChildrenItem(n, children[n], 1), ListenerItem(n) >>

\* notify() of node n: its own listener, then the children it has now
NotifyPlan(n) ==
    << ListenerItem(n), ChildrenItem(n, children[n], 1) >>

\* Mutant of Pending: the pass walks the children as they are now.
Pending_Live(snap, n) == children[n]

\* the children a pass of node n walks: those of its snapshot
Pending(snap, n) == snap

TreeIdle ==
    /\ children = [n \in Nodes |-> <<>>]
    /\ stack = <<>>
    /\ visited = <<>>
    /\ snapshots = [n \in Nodes |-> NotTaken]

\* a node subscribes to its parent, from a listener or between notifications
Subscribe(n) ==
    /\ ParentOf(n) \in Nodes
    /\ children' = [children EXCEPT ![ParentOf(n)] = trySubscribe(@, n)]
    /\ UNCHANGED <<stack, visited, snapshots, connectVars, hookVars>>

Unsubscribe(n) ==
    /\ ParentOf(n) \in Nodes
    /\ children' = [children EXCEPT ![ParentOf(n)] = tryUnsubscribe(@, n)]
    /\ UNCHANGED <<stack, visited, snapshots, connectVars, hookVars>>

\* the store changed: it notifies the root
Notify ==
    /\ stack = <<>>
    /\ stack' = NotifyPlan("root")
    /\ visited' = <<>>
    /\ snapshots' = [n \in Nodes |-> IF n = "root" THEN Taken(children[n]) ELSE NotTaken]
    /\ UNCHANGED <<children, connectVars, hookVars>>

\* the notification calls the listener that is next
CallListener ==
    /\ stack # <<>>
    /\ Head(stack).kind = "listener"
    /\ visited' = Append(visited, Head(stack).node)
    /\ stack' = Tail(stack)
    /\ UNCHANGED <<children, snapshots, connectVars, hookVars>>

\* the notification goes on to the next child of a node, or is done with them
NotifyNextChild ==
    /\ stack # <<>>
    /\ Head(stack).kind = "children"
    /\ LET item == Head(stack)
           seq == Pending(item.snap, item.node)
       IN IF item.next > Len(seq)
          THEN /\ stack' = Tail(stack)
               /\ UNCHANGED snapshots
          ELSE /\ stack' = NotifyPlan(seq[item.next])
                             \o <<ChildrenItem(item.node, item.snap, item.next + 1)>>
                             \o Tail(stack)
               /\ snapshots' = [snapshots EXCEPT ![seq[item.next]] =
                                   Taken(children[seq[item.next]])]
    /\ UNCHANGED <<children, visited, connectVars, hookVars>>

NextTree ==
    \/ \E n \in Nodes : Subscribe(n)
    \/ \E n \in Nodes : Unsubscribe(n)
    \/ Notify
    \/ CallListener
    \/ NotifyNextChild

----------------------------------------------------------------------------
(* The hook as a state machine *)

HookIdle ==
    /\ storeState = 0
    /\ listeners = <<>>
    /\ comp = [c \in Consumers |-> Unmounted("refEquality")]
    /\ hop = <<"none", "none">>
    /\ hcalls = <<>>
    /\ checkThrew = {}
    /\ TreeIdle

InitHook ==
    /\ ConnectIdle
    /\ storeState \in States
    /\ listeners = <<>>
    /\ comp \in {f \in [Consumers -> {Unmounted(eq) : eq \in EqualityFnNames}] :
                    \A c \in Consumers : f[c].equalityFn \in EqualityFnsOf(c)}
    /\ hop = <<"none", "none">>
    /\ hcalls = <<>>
    /\ checkThrew = {}
    /\ TreeIdle

\* the consumers whose selector threw in the calls of log
Throwers(log) ==
    {d \in Consumers :
        \E i \in DOMAIN log : log[i].op = "selector" /\ log[i].c = d /\ ~log[i].out.ok}

HookCommit(h, op, c) ==
    /\ comp' = h.comp
    /\ hcalls' = h.calls
    /\ hop' = <<op, c>>
    /\ checkThrew' = CASE op = "dispatch" -> checkThrew \cup Throwers(h.calls)
                        [] op \in {"render", "unmount"} -> checkThrew \ {c}
                        [] OTHER -> checkThrew
    /\ UNCHANGED <<connectVars, treeVars>>

\* React renders consumer c, mounting it or re-rendering it, with selector f
Render(c, f) ==
    /\ comp[c].phase \in {"unmounted", "mounted"}
    /\ HookCommit(RenderBody(HookWorld, c, f), "render", c)
    /\ UNCHANGED <<storeState, listeners>>

\* React commits the render: the first layout effect runs
RecordEffect(c) ==
    /\ comp[c].phase = "rendered"
    /\ LET h == RecordEffectBody(HookWorld, c)
           mounting == \A i \in DOMAIN listeners : listeners[i] # c
       IN HookCommit([h EXCEPT !.comp[c].phase =
                          IF mounting THEN "recorded" ELSE "mounted"], "record", c)
    /\ UNCHANGED <<storeState, listeners>>

\* on mount the second layout effect runs: subscribe, then check for updates
SubscribeEffect(c) ==
    /\ comp[c].phase = "recorded"
    /\ listeners' = trySubscribe(listeners, c)
    /\ UNCHANGED storeState
    /\ HookCommit(SubscribeEffectBody(HookWorld, c), "subscribe", c)

\* someone dispatches an action: the store's state becomes { count: v } and
\* the store notifies its subscribers
Dispatch(v) ==
    /\ storeState' = v
    /\ HookCommit(notifyNestedSubs(HookWorld, listeners), "dispatch", "store")
    /\ UNCHANGED listeners

\* Mutant of Unmount: the effect returns no cleanup, the consumer stays
\* subscribed.
Unmount_NoCleanup(c) ==
    /\ comp[c].phase \in {"mounted", "rendered", "recorded", "failed"}
    /\ HookCommit([HookWorld EXCEPT !.comp[c] = Unmounted(comp[c].equalityFn)],
                  "unmount", c)
    /\ UNCHANGED <<storeState, listeners>>

\* React unmounts consumer c: the effect's cleanup runs and the instance is gone
Unmount(c) ==
    /\ comp[c].phase \in {"mounted", "rendered", "recorded", "failed"}
    /\ listeners' = tryUnsubscribe(listeners, c)
    /\ HookCommit([HookWorld EXCEPT !.comp[c] = Unmounted(comp[c].equalityFn)],
                  "unmount", c)
    /\ UNCHANGED storeState

NextHook ==
    \/ \E c \in Consumers : \E f \in SelectorsOf(c) : Render(c, f)
    \/ \E c \in Consumers : RecordEffect(c)
    \/ \E c \in Consumers : SubscribeEffect(c)
    \/ \E v \in States : Dispatch(v)
    \/ \E c \in Consumers : Unmount(c)

SpecHook == InitHook /\ [][NextHook]_vars

\* the tree alone: no node is subscribed, nothing is being notified
InitTree == ConnectIdle /\ HookIdle

SpecTree == InitTree /\ [][NextTree]_vars

----------------------------------------------------------------------------
(* The connect pipeline and the adapter as state machines *)

\* finalPropsSelectorFactory has run: adapters and selector are constructed
InitConnect ==
    /\ opts \in Options
    /\ msp \in {initProxySelector(f) : f \in MapStateFns}
    /\ mdp \in {initProxySelector(f) : f \in MapDispatchFns}
              \cup {initConstantSelector(DispatchConstant)}
    /\ mp = NewMergeClosure
    /\ sel = NewSelectorClosure
    /\ heap = 0
    /\ args = <<Undefined, Undefined>>
    /\ calls = <<>>
    /\ ret = Undefined
    /\ ncalls = 0
    /\ twin = NoTwin
    /\ HookIdle

\* one adapter alone, around any of the user functions
InitAdapter ==
    /\ opts = CHOOSE o \in Options : TRUE
    /\ msp \in {initProxySelector(f) : f \in FnNames}
    /\ mdp = initConstantSelector(DispatchConstant)
    /\ mp = NewMergeClosure
    /\ sel = NewSelectorClosure
    /\ heap = 0
    /\ args = <<Undefined, Undefined>>
    /\ calls = <<>>
    /\ ret = Undefined
    /\ ncalls = 0
    /\ twin = NoTwin
    /\ HookIdle

Commit(w, a, b) ==
    /\ args' = <<a, b>>
    /\ msp' = w.msp
    /\ mdp' = w.mdp
    /\ mp' = w.mp
    /\ sel' = w.sel
    /\ heap' = w.heap
    /\ calls' = w.calls
    /\ ret' = w.out
    /\ ncalls' = ncalls + 1
    /\ UNCHANGED <<opts, hookVars, treeVars>>

\* the connected component runs its selector on (store.getState(), props)
CallSelector(nextState, nextOwnProps) ==
    /\ ncalls < MaxCalls
    /\ Commit(finalPropsSelector(World, nextState, nextOwnProps), nextState, nextOwnProps)
    /\ UNCHANGED twin

\* a caller invokes the mapStateToProps adapter directly
InvokeAdapter(stateOrDispatch, ownProps) ==
    /\ ncalls < MaxInvoke
    /\ Commit(mapStateToProps(World, stateOrDispatch, ownProps), stateOrDispatch, ownProps)
    /\ UNCHANGED twin

NextConnect == \E s \in StateObjs, p \in OwnPropsObjs : CallSelector(s, p)

NextAdapter == \E s \in StateObjs, p \in OwnPropsObjs : InvokeAdapter(s, p)

SpecConnect == InitConnect /\ [][NextConnect]_vars

SpecAdapter == InitAdapter /\ [][NextAdapter]_vars

----------------------------------------------------------------------------
(* A pure selector and an impure one side by side: both are built by       *)
(* finalPropsSelectorFactory from the same functions, each with adapters   *)
(* and a mergeProps closure of its own, and both are called with every     *)
(* input.                                                                  *)

\* the options under which the two are compared: every comparison is ===
ExactOptions ==
    {o \in Options :
        /\ o.pure
        /\ o.areStatesEqual = "strictEqual"
        /\ o.areOwnPropsEqual = "strictEqual"
        /\ o.areStatePropsEqual = "strictEqual"
        /\ o.areMergedPropsEqual = "strictEqual"}

\* the world the impure twin runs in; its objects are allocated apart from
\* those of the pure selector
TwinWorld ==
    [pure |-> FALSE, msp |-> twin.msp, mdp |-> twin.mdp, mp |-> twin.mp,
     sel |-> NewSelectorClosure, heap |-> twin.heap, calls |-> <<>>, out |-> Undefined]

TwinAfter(w) ==
    [msp |-> w.msp, mdp |-> w.mdp, mp |-> w.mp, heap |-> w.heap,
     calls |-> w.calls, ret |-> w.out]

InitRefine ==
    /\ opts \in ExactOptions
    /\ msp \in {initProxySelector(f) : f \in MapStateFns}
    /\ mdp \in {initProxySelector(f) : f \in MapDispatchFns}
              \cup {initConstantSelector(DispatchConstant)}
    /\ mp = NewMergeClosure
    /\ sel = NewSelectorClosure
    /\ heap = 0
    /\ args = <<Undefined, Undefined>>
    /\ calls = <<>>
    /\ ret = Undefined
    /\ ncalls = 0
    /\ twin = [msp |-> msp, mdp |-> mdp, mp |-> NewMergeClosure,
               heap |-> 100, calls |-> <<>>, ret |-> Undefined]
    /\ HookIdle

\* both selectors are called with (nextState, nextOwnProps)
CallBoth(nextState, nextOwnProps) ==
    /\ ncalls < MaxCalls
    /\ Commit(pureFinalPropsSelector(World, nextState, nextOwnProps), nextState, nextOwnProps)
    /\ twin' = TwinAfter(impureFinalPropsSelector(TwinWorld, nextState, nextOwnProps))

NextRefine == \E s \in StateObjs, p \in OwnPropsObjs : CallBoth(s, p)

SpecRefine == InitRefine /\ [][NextRefine]_vars

----------------------------------------------------------------------------
(* Claims about useSelector, checked under SpecHook *)

\* how many times the operation called forceRender for consumer c
ForceRenderCount(log, c) ==
    Cardinality({i \in DOMAIN log : log[i].op = "forceRender" /\ log[i].c = c})

IsSubscribed(c) == \E i \in DOMAIN listeners : listeners[i] = c

\* C1: when a consumer's mount effects have run, a store mutation that came
\* between its render's selector read and its subscription was not missed: if
\* the selector's value on the store's state differs, by equalityFn, from the
\* value the render read, the cached selected value is that new value and a
\* re-render has been requested.
C1_NoMissedUpdateOnMount ==
    \A c \in Consumers :
        hop = <<"subscribe", c>> =>
            LET now == ApplySelector(comp[c].selector, storeState)
            IN (now.ok /\ ~ApplyEqualityFn(comp[c].equalityFn, now.val, comp[c].selectedState))
                => /\ comp[c].latestSelectedState = now.val
                   /\ comp[c].forceRender
                   /\ ForceRenderCount(hcalls, c) = 1

\* the store changed after the render read 0, and the mount caught it
C1_Witness ==
    /\ hop = <<"subscribe", "c1">>
    /\ comp["c1"].selector = "count"
    /\ comp["c1"].selectedState = 0
    /\ storeState = 1
    /\ comp["c1"].latestSelectedState = 1
    /\ comp["c1"].forceRender

\* C2: a store transition notified to a subscribed consumer whose selector
\* returns on the new state: if equalityFn(new value, cached value) is false
\* the cached value becomes the new value and forceRender is called exactly
\* once for that notification; if it is true the cache is left as it is and
\* forceRender is not called.
C2_ChangePropagation ==
    [][ hop' = <<"dispatch", "store">> =>
          \A c \in Consumers :
             LET new == ApplySelector(comp[c].latestSelector, storeState')
             IN (IsSubscribed(c) /\ new.ok) =>
                   IF ApplyEqualityFn(comp[c].equalityFn, new.val, comp[c].latestSelectedState)
                   THEN /\ comp'[c] = comp[c]
                        /\ ForceRenderCount(hcalls', c) = 0
                   ELSE /\ comp'[c].latestSelectedState = new.val
                        /\ comp'[c].forceRender
                        /\ ForceRenderCount(hcalls', c) = 1 ]_vars

\* the store went from { count: 0 } to { count: 1 }: one forceRender, cache 1
C2_Witness ==
    /\ hop = <<"dispatch", "store">>
    /\ storeState = 1
    /\ IsSubscribed("c2")
    /\ comp["c2"].selectedState = 0
    /\ comp["c2"].latestSelectedState = 1
    /\ comp["c2"].forceRender
    /\ ForceRenderCount(hcalls, "c2") = 1

\* the operation called consumer c's selector
SelectorRan(log, c) == \E i \in DOMAIN log : log[i].op = "selector" /\ log[i].c = c

\* C11: a render given the selector recorded at the last commit, with no
\* subscription error stored, returns the cached selected value and does not
\* call the selector; a render calls the selector, once, exactly when the
\* selector is another one or an error is stored.
C11_IdempotentRead ==
    [][ \A c \in Consumers :
          hop' = <<"render", c>> =>
             IF /\ comp'[c].selector = comp[c].latestSelector
                /\ comp[c].latestSubscriptionCallbackError = "undefined"
             THEN /\ hcalls' = <<>>
                  /\ comp'[c].phase = "rendered"
                  /\ comp'[c].selectedState = comp[c].latestSelectedState
             ELSE /\ Len(hcalls') = 1
                  /\ hcalls'[1].op = "selector"
                  /\ hcalls'[1].fn = comp'[c].selector ]_vars

\* a mounted consumer rendered again with the same selector while the store
\* is where the cache was taken: the cache is returned, the selector not called
C11_Witness ==
    /\ hop = <<"render", "c1">>
    /\ IsSubscribed("c1")
    /\ comp["c1"].selector = "parity"
    /\ comp["c1"].latestSelector = "parity"
    /\ comp["c1"].phase = "rendered"
    /\ hcalls = <<>>
    /\ storeState = 1
    /\ comp["c1"].selectedState = 1
    /\ comp["c1"].latestSelectedState = 1

\* C12: when the selector throws in checkForUpdates during a store
\* notification, the notifier still reaches every subscribed consumer, the
\* error is stored, the cached selected value is left as it is and forceRender
\* is called; and the consumer's next render calls the selector, whatever
\* selector it is given.
C12_SubscriptionError ==
    [][ /\ hop' = <<"dispatch", "store">> =>
              \A c \in Consumers :
                 (IsSubscribed(c) /\ ~ApplySelector(comp[c].latestSelector, storeState').ok)
                 => /\ comp'[c].latestSubscriptionCallbackError = "error"
                    /\ comp'[c].latestSelectedState = comp[c].latestSelectedState
                    /\ comp'[c].forceRender
                    /\ ForceRenderCount(hcalls', c) = 1
                    /\ \A d \in Consumers : IsSubscribed(d) => SelectorRan(hcalls', d)
        /\ \A c \in Consumers :
              (hop' = <<"render", c>> /\ c \in checkThrew) => SelectorRan(hcalls', c) ]_vars

\* C13: a selector that throws during a render makes the render throw: the
\* render fails, so its effects do not run, it returns no value and the refs
\* stay as they were; the message names the error the subscription callback
\* stored exactly when one is stored.
C13_ErrorCorrelation ==
    [][ \A c \in Consumers :
          (hop' = <<"render", c>> /\ \E i \in DOMAIN hcalls' : ~hcalls'[i].out.ok)
          => /\ comp'[c].phase = "failed"
             /\ comp'[c].thrown =
                   IF comp[c].latestSubscriptionCallbackError # "undefined"
                   THEN "correlated" ELSE "plain"
             /\ comp'[c].selectedState = comp[c].selectedState
             /\ comp'[c].latestSelector = comp[c].latestSelector
             /\ comp'[c].latestSelectedState = comp[c].latestSelectedState
             /\ comp'[c].latestSubscriptionCallbackError
                   = comp[c].latestSubscriptionCallbackError ]_vars

\* the selector threw in a notification and again in the render that followed
C13_Witness ==
    /\ hop = <<"render", "c1">>
    /\ comp["c1"].phase = "failed"
    /\ comp["c1"].thrown = "correlated"
    /\ comp["c1"].latestSubscriptionCallbackError = "error"
    /\ comp["c1"].latestSelector = "fragile"
    /\ storeState = 1

\* C14: a store mutation that comes after a consumer unmounted does not call
\* that consumer's checkForUpdates: its selector is not called, forceRender is
\* not called for it and nothing of it changes; unmounting leaves it
\* unsubscribed.
C14_UnmountSafety ==
    [][ /\ \A c \in Consumers : hop' = <<"unmount", c>> => ~IsSubscribed(c)'
        /\ hop' = <<"dispatch", "store">> =>
              \A c \in Consumers :
                 comp[c].phase = "unmounted"
                 => /\ \A i \in DOMAIN hcalls' : hcalls'[i].c # c
                    /\ comp'[c] = comp[c] ]_vars

\* the store went to { count: 1 } with c1 unmounted (an unmounted consumer is
\* in the state of one never mounted): its sibling was notified, c1 was not
C14_Witness ==
    /\ hop = <<"dispatch", "store">>
    /\ storeState = 1
    /\ comp["c1"].phase = "unmounted"
    /\ ~IsSubscribed("c1")
    /\ SelectorRan(hcalls, "c2")
    /\ ~SelectorRan(hcalls, "c1")

\* the calls of consumer c's selector in log
SelectorCalls(log, c) == SelectSeq(log, LAMBDA e : e.op = "selector" /\ e.c = c)

\* C18: every store notification evaluates, for each subscribed consumer, the
\* selector recorded at its latest commit on the store's new state; the commit
\* of a re-render records the render's selector and runs neither the
\* subscription effect nor checkForUpdates.
C18_LatestSelector ==
    [][ /\ hop' = <<"dispatch", "store">> =>
              \A c \in Consumers :
                 IsSubscribed(c) =>
                    /\ Len(SelectorCalls(hcalls', c)) = 1
                    /\ SelectorCalls(hcalls', c)[1].fn = comp[c].latestSelector
                    /\ SelectorCalls(hcalls', c)[1].arg = storeState'
        /\ \A c \in Consumers :
              (hop' = <<"record", c>> /\ IsSubscribed(c))
              => /\ comp'[c].latestSelector = comp[c].selector
                 /\ comp'[c].effectSelector = comp[c].effectSelector
                 /\ listeners' = listeners
                 /\ hcalls' = <<>> ]_vars

\* c1 mounted with s => s.count, committed a render with s => s.count % 2, and
\* the notification of { count: 2 } evaluated the latter
C18_Witness ==
    /\ hop = <<"dispatch", "store">>
    /\ storeState = 2
    /\ comp["c1"].phase = "mounted"
    /\ comp["c1"].effectSelector = "count"
    /\ comp["c1"].latestSelector = "parity"
    /\ Len(SelectorCalls(hcalls, "c1")) = 1
    /\ SelectorCalls(hcalls, "c1")[1].fn = "parity"
    /\ SelectorCalls(hcalls, "c1")[1].out = Returned(0)

\* C19: whenever a mounted consumer has committed its last render and no
\* re-render of it is requested, the value that render returned and the cached
\* selected value are equalityFn-equal to the selector's value on the store's
\* state (when the selector returns on it), whatever the order of store
\* mutations, renders, effects and notifications before.
C19_NoStaleValue ==
    \A c \in Consumers :
        (comp[c].phase = "mounted" /\ ~comp[c].forceRender
         /\ ApplySelector(comp[c].latestSelector, storeState).ok)
        => LET now == ApplySelector(comp[c].latestSelector, storeState).val
           IN /\ ApplyEqualityFn(comp[c].equalityFn, comp[c].selectedState, now)
              /\ ApplyEqualityFn(comp[c].equalityFn, comp[c].latestSelectedState, now)

----------------------------------------------------------------------------
(* Claims about the Subscription tree, checked under SpecTree *)

Range(seq) == {seq[i] : i \in DOMAIN seq}

IsPrefix(a, b) == Len(a) <= Len(b) /\ \A i \in DOMAIN a : a[i] = b[i]

\* the nodes above n in the tree
RECURSIVE Ancestors(_)
Ancestors(n) ==
    IF ParentOf(n) \in Nodes THEN {ParentOf(n)} \cup Ancestors(ParentOf(n)) ELSE {}

\* the children of n whose listener the current notification has called
VisitedChildren(n) == SelectSeq(visited, LAMBDA x : ParentOf(x) = n)

\* C15: in one notification a node's listener is called after the listener
\* of each of its ancestors, at most once, and only if the node was subscribed
\* to its parent when the notification reached the parent.
C15_TopDownOrder ==
    \A i \in DOMAIN visited :
        /\ \A m \in Ancestors(visited[i]) : \E j \in 1 .. (i - 1) : visited[j] = m
        /\ \A j \in DOMAIN visited : visited[j] = visited[i] => j = i
        /\ ParentOf(visited[i]) \in Nodes =>
              visited[i] \in Range(snapshots[ParentOf(visited[i])].nodes)

\* a finished notification of a tree in which a2 is not subscribed: the root,
\* then a, then a's child a1, then b
C15_Witness ==
    /\ stack = <<>>
    /\ visited = <<"root", "a", "a1", "b">>
    /\ children["a"] = <<"a1">>
    /\ snapshots["a"] = Taken(<<"a1">>)

\* C16: the children of a node that one notification notifies are those the
\* node had when the notification reached it, in their order: while it runs
\* the children notified are the first of them, when it is over they are all
\* of them, whoever subscribed or unsubscribed meanwhile; a child that
\* subscribed meanwhile is not among them.
C16_SnapshotSemantics ==
    /\ \A n \in Nodes :
          IF snapshots[n].taken
          THEN /\ IsPrefix(VisitedChildren(n), snapshots[n].nodes)
               /\ stack = <<>> => VisitedChildren(n) = snapshots[n].nodes
          ELSE VisitedChildren(n) = <<>>
    /\ \A i \in DOMAIN stack :
          stack[i].kind = "children" => snapshots[stack[i].node] = Taken(stack[i].snap)

\* during the notification a unsubscribed and b subscribed: a was notified
\* and b was not
C16_Witness ==
    /\ stack = <<>>
    /\ snapshots["root"] = Taken(<<"a">>)
    /\ children["root"] = <<"b">>
    /\ visited = <<"root", "a">>

----------------------------------------------------------------------------
(* What the claims read from a call log *)

\* how many entries of log are calls op of role
Count(log, op, role) ==
    Cardinality({i \in DOMAIN log : log[i].op = op /\ log[i].role = role})

\* the user functions called for role, in order
FnCalls(log, role) ==
    SelectSeq(log, LAMBDA e : e.op = "fn" /\ e.role = role)

\* what the last user function called for role returned
LastOut(log, role) == FnCalls(log, role)[Len(FnCalls(log, role))].out

\* the selector's mergeProps was invoked exactly once, with these arguments
MergedOnceWith(log, stateProps, dispatchProps, ownProps) ==
    /\ Count(log, "mergeProps", "mergeProps") = 1
    /\ \E i \in DOMAIN log :
          /\ log[i].op = "mergeProps"
          /\ log[i].args = <<stateProps.id, dispatchProps.id, ownProps.id>>

\* a step that invokes the pure selector after its first call; args' holds
\* (nextState, nextOwnProps)
PureSubsequentCall ==
    opts.pure /\ sel.hasRunAtLeastOnce /\ ncalls' = ncalls + 1

OwnPropsChanged == ~Equal(opts.areOwnPropsEqual, args'[2], sel.ownProps)

StateChanged == ~Equal(opts.areStatesEqual, args'[1], sel.state)

----------------------------------------------------------------------------
(* Claims about the final-props selector, checked under SpecConnect *)

\* C3: pure mode, neither own props nor state changed: the selector returns the
\* very object it cached and returned before, and invokes none of
\* mapStateToProps, mapDispatchToProps, mergeProps.
C3_NeitherChanged ==
    [][ (PureSubsequentCall /\ ~OwnPropsChanged /\ ~StateChanged)
        => /\ calls' = <<>>
           /\ strictEqual(ret', sel.mergedProps)
           /\ strictEqual(ret', ret)
           /\ sel'.mergedProps = sel.mergedProps ]_vars

C3_Witness ==
    /\ opts.pure
    /\ ncalls >= 2
    /\ calls = <<>>
    /\ ret = sel.mergedProps
    /\ ret # Undefined

\* C4: pure mode, only the state changed: mapStateToProps is invoked exactly
\* once, mapDispatchToProps is not invoked, and mergeProps is invoked exactly
\* when areStatePropsEqual(new state props, previous state props) is false;
\* when it is true the cached mergedProps is returned as it is.
C4_OnlyStateChanged ==
    [][ (PureSubsequentCall /\ ~OwnPropsChanged /\ StateChanged)
        => /\ Count(calls', "adapter", "mapStateToProps") = 1
           /\ Count(calls', "adapter", "mapDispatchToProps") = 0
           /\ IF Equal(opts.areStatePropsEqual,
                       LastOut(calls', "mapStateToProps"), sel.stateProps)
              THEN /\ Count(calls', "mergeProps", "mergeProps") = 0
                   /\ strictEqual(ret', sel.mergedProps)
                   /\ sel'.mergedProps = sel.mergedProps
              ELSE Count(calls', "mergeProps", "mergeProps") = 1 ]_vars

\* a state change that left the state props equal: the merge was skipped
C4_Witness ==
    /\ opts.pure
    /\ ncalls >= 2
    /\ Count(calls, "adapter", "mapStateToProps") = 1
    /\ Count(calls, "adapter", "mapDispatchToProps") = 0
    /\ Count(calls, "mergeProps", "mergeProps") = 0
    /\ ret = sel.mergedProps

\* C5: pure mode, only own props changed: each of mapStateToProps and
\* mapDispatchToProps is invoked exactly when its dependsOnOwnProps flag is
\* true, an adapter whose flag is false keeps its cached output, and mergeProps
\* is invoked once with the resulting stateProps, dispatchProps and the new
\* ownProps.
C5_OnlyOwnPropsChanged ==
    [][ (PureSubsequentCall /\ OwnPropsChanged /\ ~StateChanged)
        => LET stateProps == IF msp.dependsOnOwnProps
                             THEN LastOut(calls', "mapStateToProps")
                             ELSE sel.stateProps
               dispatchProps == IF mdp.dependsOnOwnProps
                                THEN LastOut(calls', "mapDispatchToProps")
                                ELSE sel.dispatchProps
           IN /\ Count(calls', "adapter", "mapStateToProps")
                    = IF msp.dependsOnOwnProps THEN 1 ELSE 0
              /\ Count(calls', "adapter", "mapDispatchToProps")
                    = IF mdp.dependsOnOwnProps THEN 1 ELSE 0
              /\ ~msp.dependsOnOwnProps => FnCalls(calls', "mapStateToProps") = <<>>
              /\ ~mdp.dependsOnOwnProps => FnCalls(calls', "mapDispatchToProps") = <<>>
              /\ sel'.stateProps = stateProps
              /\ sel'.dispatchProps = dispatchProps
              /\ MergedOnceWith(calls', stateProps, dispatchProps, args'[2]) ]_vars

\* own props changed, mapStateToProps does not depend on them and was left
\* alone, mapDispatchToProps depends on them and ran, and the merge ran
C5_Witness ==
    /\ opts.pure
    /\ ncalls >= 2
    /\ ~msp.dependsOnOwnProps
    /\ mdp.dependsOnOwnProps
    /\ Count(calls, "adapter", "mapStateToProps") = 0
    /\ Count(calls, "adapter", "mapDispatchToProps") = 1
    /\ MergedOnceWith(calls, sel.stateProps, sel.dispatchProps, args[2])

\* C6: pure mode, own props and state both changed: mapStateToProps is invoked
\* whatever its flag, mapDispatchToProps exactly when its flag is true, and
\* mergeProps once with the new stateProps, the new or reused dispatchProps and
\* the new ownProps.
C6_BothChanged ==
    [][ (PureSubsequentCall /\ OwnPropsChanged /\ StateChanged)
        => LET stateProps == LastOut(calls', "mapStateToProps")
               dispatchProps == IF mdp.dependsOnOwnProps
                                THEN LastOut(calls', "mapDispatchToProps")
                                ELSE sel.dispatchProps
           IN /\ Count(calls', "adapter", "mapStateToProps") = 1
              /\ Count(calls', "adapter", "mapDispatchToProps")
                    = IF mdp.dependsOnOwnProps THEN 1 ELSE 0
              /\ sel'.stateProps = stateProps
              /\ sel'.dispatchProps = dispatchProps
              /\ MergedOnceWith(calls', stateProps, dispatchProps, args'[2]) ]_vars

\* both changed, mapStateToProps does not depend on own props and ran all the
\* same, mapDispatchToProps does not depend on them and was left alone
C6_Witness ==
    /\ opts.pure
    /\ ncalls >= 2
    /\ ~msp.dependsOnOwnProps
    /\ ~mdp.dependsOnOwnProps
    /\ Count(calls, "adapter", "mapStateToProps") = 1
    /\ Count(calls, "adapter", "mapDispatchToProps") = 0
    /\ MergedOnceWith(calls, sel.stateProps, sel.dispatchProps, args[2])

\* C7: in pure mode every call of mergePropsProxy after its first returns the
\* object it returned before when areMergedPropsEqual(fresh result, that
\* object) is true, and the fresh result otherwise.
C7_MergeMemoization ==
    [][ (opts.pure /\ opts.mergeProps # "omitted" /\ mp.hasRunOnce
         /\ ncalls' = ncalls + 1 /\ FnCalls(calls', "mergeProps") # <<>>)
        => LET nextMergedProps == LastOut(calls', "mergeProps")
           IN /\ Len(FnCalls(calls', "mergeProps")) = 1
              /\ IF Equal(opts.areMergedPropsEqual, nextMergedProps, mp.mergedProps)
                 THEN /\ strictEqual(ret', mp.mergedProps)
                      /\ mp'.mergedProps = mp.mergedProps
                 ELSE /\ strictEqual(ret', nextMergedProps)
                      /\ mp'.mergedProps = nextMergedProps ]_vars

\* the user's mergeProps built a new object and the proxy returned the old one
C7_Witness ==
    /\ opts.pure
    /\ opts.mergeProps = "pick"
    /\ ncalls >= 2
    /\ FnCalls(calls, "mergeProps") # <<>>
    /\ ~strictEqual(LastOut(calls, "mergeProps"), ret)
    /\ ret = mp.mergedProps

\* C8: impure mode: every invocation invokes mapStateToProps,
\* mapDispatchToProps and mergeProps, and the object it returns is never the
\* object the previous invocation returned.
C8_ImpureAlwaysNewObject ==
    [][ (~opts.pure /\ ncalls' = ncalls + 1)
        => /\ Count(calls', "adapter", "mapStateToProps") = 1
           /\ Count(calls', "adapter", "mapDispatchToProps") = 1
           /\ Count(calls', "mergeProps", "mergeProps") = 1
           /\ (ncalls >= 1 => ~strictEqual(ret', ret)) ]_vars

\* what the mergeProps given to connect() makes of its three arguments
MergeOf(stateProps, dispatchProps, ownProps) ==
    IF opts.mergeProps = "omitted"
    THEN defaultMergeProps(World, stateProps, dispatchProps, ownProps).out
    ELSE userMergeProps(World, stateProps, dispatchProps, ownProps).out

\* C17: after every invocation of the pure selector the cached mergedProps has
\* the content of mergeProps applied to the cached stateProps, dispatchProps
\* and ownProps, and it is the object the invocation returned.
C17_DerivedPropsRecord ==
    (opts.pure /\ ncalls >= 1) =>
        /\ shallowEqual(sel.mergedProps,
                        MergeOf(sel.stateProps, sel.dispatchProps, sel.ownProps))
        /\ strictEqual(ret, sel.mergedProps)
        /\ sel.state = args[1]
        /\ sel.ownProps = args[2]

\* the state changed, a new but equal stateProps object was cached, and the
\* mergedProps merged from the previous one was kept
C17_Witness ==
    /\ opts.pure
    /\ opts.mergeProps = "pick"
    /\ ncalls >= 2
    /\ Count(calls, "adapter", "mapStateToProps") = 1
    /\ Count(calls, "mergeProps", "mergeProps") = 0
    /\ sel.stateProps = LastOut(calls, "mapStateToProps")
    /\ shallowEqual(sel.mergedProps,
                    MergeOf(sel.stateProps, sel.dispatchProps, sel.ownProps))

\* C20: with every area...Equal option ===, called with the same sequence of
\* (state, ownProps), the pure selector returns on each call a value with the
\* content of what the impure selector built from the same functions returns
\* for that call. Checked under SpecRefine.
C20_PureRefinesImpure ==
    ncalls >= 1 => shallowEqual(ret, twin.ret)

\* a call with the inputs of the call before: the pure selector called
\* nothing and returned its cache, the impure one called all three functions
\* and built another object with the same content
C20_Witness ==
    /\ ncalls >= 2
    /\ calls = <<>>
    /\ Count(twin.calls, "adapter", "mapStateToProps") = 1
    /\ Count(twin.calls, "adapter", "mapDispatchToProps") = 1
    /\ Count(twin.calls, "mergeProps", "mergeProps") = 1
    /\ ~strictEqual(ret, twin.ret)
    /\ shallowEqual(ret, twin.ret)

----------------------------------------------------------------------------
(* Claims about the MapToProps adapter, checked under SpecAdapter *)

\* the wrapped function is a factory: what it returns is a function
IsFactory(f) == Fn[f].ret \in FnNames

\* C9: around a function that returns a function, the adapter's first
\* invocation calls the wrapped function once and then the returned function
\* once, returning the latter's result; every later invocation makes one call,
\* to the returned function, and never calls the wrapped function again.
C9_FactoryResolution ==
    IsFactory(msp.fn) =>
        LET fns == FnCalls(calls, "mapStateToProps")
        IN /\ ncalls = 1 =>
                /\ Len(fns) = 2
                /\ fns[1].fn = msp.fn
                /\ fns[2].fn = Fn[msp.fn].ret
                /\ ret = fns[2].out
           /\ ncalls > 1 =>
                /\ Len(fns) = 1
                /\ fns[1].fn = Fn[msp.fn].ret
                /\ fns[1].fn # msp.fn
                /\ ret = fns[1].out

C9_Witness ==
    /\ IsFactory(msp.fn)
    /\ ncalls >= 2
    /\ Len(FnCalls(calls, "mapStateToProps")) = 1
    /\ ret.fn = ""
    /\ ret = LastOut(calls, "mapStateToProps")

\* what the claim says getDependsOnOwnProps(f) is
ClaimedDependsOnOwnProps(f) ==
    CASE Fn[f].flag \in {"true", "1"} -> TRUE
      [] Fn[f].flag \in {"false", "0"} -> FALSE
      [] Fn[f].len = 1 -> FALSE
      [] OTHER -> TRUE

\* C10: after the adapter's first invocation its dependsOnOwnProps is that of
\* the function in use (the returned function of a factory, else the wrapped
\* function): Boolean(flag) when the function carries a flag that is neither
\* null nor undefined, else false exactly for arity 1; and it stays so.
C10_DependsOnOwnProps ==
    ncalls >= 1 =>
        LET inUse == IF IsFactory(msp.fn) THEN Fn[msp.fn].ret ELSE msp.fn
        IN /\ msp.mapToProps = inUse
           /\ msp.dependsOnOwnProps = ClaimedDependsOnOwnProps(inUse)

\* a factory of arity 1 resolved to a function of arity 2: the flag is that of
\* the function returned
C10_Witness ==
    /\ ncalls >= 2
    /\ IsFactory(msp.fn)
    /\ Fn[msp.fn].len = 1
    /\ msp.dependsOnOwnProps
    /\ calls[Len(calls)].args[2] # Undefined.id

====
